---- MODULE Spec2Model ----
(***************************************************************************)
(* Model of the news pipeline of news_summarizer.                          *)
(*                                                                         *)
(* Part 1: NewsCollector (data_collection/collector.py): link discovery,   *)
(* content extraction, per-source collection and the recency filter.       *)
(*                                                                         *)
(* Part 2: ArticleSummarizer (summarization/summarizer.py): construction,  *)
(* the word limit, the two generation paths and the fallback.              *)
(*                                                                         *)
(* Part 3: HumorGenerator (humor/humorizer.py): add_humor, batch_add_humor *)
(* and the orchestrator's add_humor stage.                                 *)
(*                                                                         *)
(* Part 4: main() (main.py), stage by stage.                               *)
(*                                                                         *)
(* Part 5: Config (utils/config.py) and NewsletterFormatter                *)
(* (utils/formatter.py): loading and validation of the environment, the    *)
(* hand-off to the summarizer, rendering and the saved file's extension.   *)
(*                                                                         *)
(* Strings are sequences of atoms.  An atom is either a single character   *)
(* that the code inspects ("/", "#") or an opaque run of characters that   *)
(* contains neither of them ("https:", "h", "a", ...).  No atom is a       *)
(* proper part of one of the literals the code searches for, so prefix,    *)
(* substring, strip, split and join on atom sequences behave as the        *)
(* Python string methods do on the strings they stand for.                 *)
(***************************************************************************)
EXTENDS Integers, Sequences, FiniteSets, TLC

VARIABLES
    \* ---- _extract_article_links run on its own (SpecLinks) ----
    lpc,            \* "start" | "done"
    soup,           \* the href attributes of the page's <a href=...> tags, in page order
    base_url,       \* the source descriptor's url, as its components
    links,          \* local `links` (before deduplication)
    unique_links,   \* local `unique_links` (the returned list)
    \* ---- NewsCollector.collect_news (Spec) ----
    pc,             \* "start" | "sources" | "links" | "done"
    max_articles_per_source,
    days_to_look_back,
    now,            \* the clock read by datetime.now()
    srcIdx,         \* position of `for source in self.sources`
    article_links,  \* _collect_from_source: the capped link list
    discovered,     \* _collect_from_source: what _extract_article_links returned
    linkIdx,        \* position of `for url in article_links`
    articles,       \* _collect_from_source: local `articles`
    attempts,       \* log: the extraction attempts of the current source
    lastExtract,    \* log: the last extractor call, what the page gave and what came back
    articles_data,  \* collect_news: local `articles_data`
    srcLog,         \* log: per processed source, the fetch outcome and its records
    result,         \* the rows of the returned DataFrame
    raised,         \* collect_news ended by an exception
    \* ---- ArticleSummarizer (SpecSumm) ----
    spc,            \* "new" | "ready" | "ctor_raised"
    s_model,        \* self.model: "None" or "obj"; "unset" before construction
    s_tokenizer,    \* self.tokenizer, likewise
    s_pipeline,     \* self.summarization_pipeline: "obj", or "unset" when never assigned
    loads,          \* log: the outcome of every run of _load_model
    sumCalls,       \* log: how often summarize was called
    invoked,        \* log: calls made to the tokenizer, the model and the pipeline
    lastSum,        \* log: the last summarize call
    \* ---- HumorGenerator (SpecHumor) ----
    hpc,            \* "ready" | "returned"
    api_key,        \* openai.api_key: <<>> for None, else <<string>>
    h_cfg,          \* self.model, self.temperature, self.max_tokens
    lastOp,         \* log: the call made on the generator
    \* ---- main() (SpecMain) ----
    mpc,            \* "start" | "configured" | "ingested" | "summarized" | "stylized" | "returned"
    m_df,           \* main: local `articles_df`, as the sequence of its rows
    stageLog,       \* log: the stages main has invoked, in order
    m_status,       \* the value main returned: <<>> while running, else <<0>> or <<1>>
    m_raised,       \* an exception left main
    \* ---- Config and NewsletterFormatter (SpecConfig) ----
    cpc,            \* "env" | "configured" | "ctor_raised" | "handed" | "standalone"
    environ,        \* os.environ after load_dotenv: per name, <<>> when unset, else <<text>>
    config,         \* Config.config
    handed,         \* log: the keyword arguments summarize_articles gives ArticleSummarizer
    fpc,            \* "none" | "constructed" | "rendered" | "saved"
    f_output_format,   \* NewsletterFormatter.output_format
    rendered,       \* log: the renderer format_newsletter used, <<>> before
    extension,      \* save_newsletter: local `extension`, <<>> before
    f_filepath      \* what save_newsletter returned, <<>> for ""

linkVars == <<lpc, soup, base_url, links, unique_links>>
collVars == <<pc, max_articles_per_source, days_to_look_back, now, srcIdx,
              article_links, discovered, linkIdx, articles, attempts, lastExtract,
              articles_data, srcLog, result, raised>>
summVars == <<spc, s_model, s_tokenizer, s_pipeline, loads, sumCalls, invoked, lastSum>>
humVars == <<hpc, api_key, h_cfg, lastOp>>
mainVars == <<mpc, m_df, stageLog, m_status, m_raised>>
cfgVars == <<cpc, environ, config, handed, fpc, f_output_format, rendered, extension,
             f_filepath>>
pipeVars == <<summVars, humVars, mainVars, cfgVars>>
vars == <<linkVars, collVars, pipeVars>>

----------------------------------------------------------------------------
(* Bounds *)

MaxPageLen == 3     \* hrefs on a page given to _extract_article_links alone
MaxCap == 2         \* max_articles_per_source ranges over 1..MaxCap
MaxLookback == 2    \* days_to_look_back ranges over 1..MaxLookback
MaxSummarizeCalls == 2  \* summarize calls made on one ArticleSummarizer
MaxBatch == 2       \* records in one batch handed to the HumorGenerator
MaxRows == 2        \* records ingestion returns to main

----------------------------------------------------------------------------
(* Python string and list methods, on sequences of atoms *)

Min(a, b) == IF a < b THEN a ELSE b

Max(a, b) == IF a > b THEN a ELSE b

Range(s) == {s[i] : i \in DOMAIN s}

\* str.startswith(p)
StartsWith(s, p) == Len(s) >= Len(p) /\ SubSeq(s, 1, Len(p)) = p

\* `lit in s` for a literal that is one atom
Contains(s, lit) == \E i \in DOMAIN s : s[i] = lit

\* str.rstrip(c)
RECURSIVE RStrip(_, _)
RStrip(s, c) ==
    IF s # <<>> /\ s[Len(s)] = c THEN RStrip(SubSeq(s, 1, Len(s) - 1), c) ELSE s

\* str.lstrip(c)
RECURSIVE LStrip(_, _)
LStrip(s, c) ==
    IF s # <<>> /\ s[1] = c THEN LStrip(Tail(s), c) ELSE s

\* str.split(c): the fields between the occurrences of c (always at least one)
RECURSIVE Split(_, _)
Split(s, c) ==
    IF ~Contains(s, c) THEN <<s>>
    ELSE LET i == CHOOSE k \in DOMAIN s : s[k] = c /\ \A j \in 1..(k - 1) : s[j] # c
         IN  <<SubSeq(s, 1, i - 1)>> \o Split(SubSeq(s, i + 1, Len(s)), c)

\* c.join(parts)
RECURSIVE Join(_, _)
Join(parts, c) ==
    IF parts = <<>> THEN <<>>
    ELSE IF Len(parts) = 1 THEN parts[1]
    ELSE parts[1] \o <<c>> \o Join(Tail(parts), c)

\* list[:n]
SliceTo(s, n) ==
    IF n >= 0 THEN SubSeq(s, 1, Min(n, Len(s)))
    ELSE SubSeq(s, 1, Max(Len(s) + n, 0))

\* str.isspace() of one character
IsWhitespace(c) == c \in {" ", "\n", "\t"}

\* a word of s begins at position i
IsWordStart(s, i) ==
    /\ ~IsWhitespace(s[i])
    /\ i = 1 \/ IsWhitespace(s[i - 1])

\* the last position of the word of s that begins at position i
WordEnd(s, i) ==
    CHOOSE j \in i..Len(s) :
        /\ \A k \in i..j : ~IsWhitespace(s[k])
        /\ j = Len(s) \/ IsWhitespace(s[j + 1])

\* the words of s that begin in lo..hi, in order
RECURSIVE WordsFrom(_, _, _)
WordsFrom(s, lo, hi) ==
    IF lo > hi THEN <<>>
    ELSE IF lo = hi
         THEN IF IsWordStart(s, lo) THEN <<SubSeq(s, lo, WordEnd(s, lo))>> ELSE <<>>
         ELSE LET mid == (lo + hi) \div 2
              IN WordsFrom(s, lo, mid) \o WordsFrom(s, mid + 1, hi)

\* str.split(): the maximal runs of non-whitespace characters
SplitWhitespace(s) == WordsFrom(s, 1, Len(s))

\* sep.join(parts[lo..hi])
RECURSIVE JoinRange(_, _, _, _)
JoinRange(parts, lo, hi, sep) ==
    IF lo > hi THEN <<>>
    ELSE IF lo = hi THEN parts[lo]
         ELSE LET mid == (lo + hi) \div 2
              IN JoinRange(parts, lo, mid, sep) \o sep \o JoinRange(parts, mid + 1, hi, sep)

\* sep.join(parts), for long lists
JoinWords(parts, sep) == JoinRange(parts, 1, Len(parts), sep)

----------------------------------------------------------------------------
(* NewsCollector._extract_article_links *)

\* collector.py:159 -- the test that skips an href
IsSkipped(href) ==
    href = <<>> \/ StartsWith(href, <<"#">>) \/ Contains(href, "javascript:")

\* collector.py:165 -- "/".join(base_url.split("/")[:3])
Domain(base) == Join(SliceTo(Split(base, "/"), 3), "/")

\* variant: base_url is joined without stripping its trailing slashes
MakeAbsoluteNoStrip(href, base) ==
    IF StartsWith(href, <<"/">>) THEN Domain(base) \o href
    ELSE IF ~(StartsWith(href, <<"http:", "/", "/">>) \/ StartsWith(href, <<"https:", "/", "/">>))
         THEN base \o <<"/">> \o href
         ELSE href

\* collector.py:162-168 -- make a relative URL absolute
MakeAbsolute(href, base) ==
    IF StartsWith(href, <<"/">>) THEN Domain(base) \o href
    ELSE IF ~(StartsWith(href, <<"http:", "/", "/">>) \/ StartsWith(href, <<"https:", "/", "/">>))
         THEN RStrip(base, "/") \o <<"/">> \o LStrip(href, "/")
         ELSE href

\* collector.py:152-170 -- the loop over the <a href> tags, building `links`
RECURSIVE CollectLinks(_, _)
CollectLinks(hrefs, base) ==
    IF hrefs = <<>> THEN <<>>
    ELSE IF IsSkipped(hrefs[1]) THEN CollectLinks(Tail(hrefs), base)
    ELSE <<MakeAbsolute(hrefs[1], base)>> \o CollectLinks(Tail(hrefs), base)

\* variant: only a repetition of the previous link is dropped
RECURSIVE RemoveAdjacentDuplicates(_)
RemoveAdjacentDuplicates(ls) ==
    IF Len(ls) <= 1 THEN ls
    ELSE IF ls[1] = ls[2] THEN RemoveAdjacentDuplicates(Tail(ls))
    ELSE <<ls[1]>> \o RemoveAdjacentDuplicates(Tail(ls))

RECURSIVE RemoveDuplicatesFrom(_, _)
RemoveDuplicatesFrom(ls, acc) ==
    IF ls = <<>> THEN acc
    ELSE IF ls[1] \in Range(acc) THEN RemoveDuplicatesFrom(Tail(ls), acc)
    ELSE RemoveDuplicatesFrom(Tail(ls), Append(acc, ls[1]))

\* collector.py:172-176 -- remove duplicates while preserving order
RemoveDuplicates(ls) == RemoveDuplicatesFrom(ls, <<>>)

\* collector.py:139-178
extract_article_links(hrefs, base) == RemoveDuplicates(CollectLinks(hrefs, base))

----------------------------------------------------------------------------
(* Inputs of _extract_article_links *)

\* a source url, from its parts: scheme, host, path segments, trailing slashes
BaseStr(b) ==
    <<b.scheme, "/", "/", b.host>>
        \o (IF b.path = <<>> THEN <<>> ELSE <<"/">> \o b.path)
        \o [i \in 1..b.slashes |-> "/"]

SchemeHost(b) == <<b.scheme, "/", "/", b.host>>

BaseUrls ==
    [scheme : {"https:"}, host : {"h"}, path : {<<>>, <<"n">>}, slashes : {0, 1, 2}]

Hrefs == {
    <<>>,                                        \* href=""
    <<"#">>,                                     \* "#"
    <<"#", "a">>,                                \* "#a"
    <<"javascript:", "a">>,                      \* "javascript:a"
    <<"/", "a">>,                                \* "/a"
    <<"/", "n", "/", "a">>,                      \* "/n/a"
    <<"a">>,                                     \* "a"
    <<"a", "/">>,                                \* "a/"
    <<"https:", "/", "/", "h", "/", "a">>,       \* "https://h/a"
    <<"https:", "/", "/", "h", "/", "n", "/", "a">>,
    <<"http:", "/", "/", "h", "/", "a">>,        \* "http://h/a"
    <<"mailto:", "a">>,                          \* "mailto:a"
    <<"/", "a", "/", "javascript:", "b">>        \* "/a/javascript:b"
}

RECURSIVE SeqsUpTo(_, _)
SeqsUpTo(S, n) ==
    IF n = 0 THEN {<<>>}
    ELSE LET shorter == SeqsUpTo(S, n - 1)
         IN  shorter \cup {Append(s, x) : s \in shorter, x \in S}

Pages == SeqsUpTo(Hrefs, MaxPageLen)

----------------------------------------------------------------------------
(* _extract_article_links applied to one page *)

LinksOff ==
    /\ lpc = "off"
    /\ soup = <<>>
    /\ base_url = [scheme |-> "https:", host |-> "h", path |-> <<>>, slashes |-> 0]
    /\ links = <<>>
    /\ unique_links = <<>>

ExtractArticleLinks ==
    /\ lpc = "start"
    /\ links' = CollectLinks(soup, BaseStr(base_url))
    /\ unique_links' = extract_article_links(soup, BaseStr(base_url))
    /\ lpc' = "done"
    /\ UNCHANGED <<soup, base_url, collVars, pipeVars>>

----------------------------------------------------------------------------
(* NewsCollector._extract_article_content *)

\* what downloading and parsing the page at a url gives: the download fails
\* (ArticleException), the parser throws (any other Exception), or the page
\* parses to a title, a text and an optional publish date (<<>> is None)
NoPage == [title |-> "", text |-> "", publish_date |-> <<>>]

NoOutcome == [kind |-> "none"] @@ NoPage

PageOutcomes(dates) ==
    {[kind |-> k] @@ NoPage : k \in {"download_fails", "parse_throws"}}
        \cup [kind : {"parsed"}, title : {"T"}, text : {"X"},
              publish_date : {<<>>} \cup {<<d>> : d \in dates}]
        \cup [kind : {"parsed"}, title : {"", "T"}, text : {""}, publish_date : {<<>>}]
        \cup [kind : {"parsed"}, title : {""}, text : {"X"}, publish_date : {<<>>}]

\* the exception the body of the try block ends with ("" when it ends normally)
BodyRaises(o) ==
    CASE o.kind = "download_fails" -> "ArticleException"
      [] o.kind = "parse_throws" -> "Exception"
      [] OTHER -> ""

\* collector.py:210-215 -- except ArticleException / except Exception
ExtractHandles(e) == e \in {"ArticleException", "Exception"}

\* variant: only the title is tested
MissingTitleOnly(o) == o.title = ""

\* collector.py:199 -- not article.title or not article.text
MissingTitleOrText(o) == o.title = "" \/ o.text = ""

\* variant: the extracted publish date is ignored
DateOfAlwaysNow(o, clock) == clock

\* collector.py:208 -- article.publish_date or datetime.now()
DateOf(o, clock) == IF o.publish_date = <<>> THEN clock ELSE o.publish_date[1]

\* collector.py:180-215.  The call's result: it raised, or it returned None
\* (ret = <<>>) or a record (ret = <<record>>)
extract_article_content(url, source_name, o, clock) ==
    IF BodyRaises(o) # ""
    THEN [raised |-> ~ExtractHandles(BodyRaises(o)), ret |-> <<>>]
    ELSE IF MissingTitleOrText(o)
    THEN [raised |-> FALSE, ret |-> <<>>]
    ELSE [raised |-> FALSE,
          ret |-> <<[title |-> o.title, text |-> o.text, url |-> url,
                     source |-> source_name, date |-> DateOf(o, clock)]>>]

----------------------------------------------------------------------------
(* NewsCollector._collect_from_source and NewsCollector.collect_news *)

\* the configured sources (tests/test_collector.py:18-21 configures two)
Sources == <<
    [name |-> "Test Source 1",
     url |-> BaseStr([scheme |-> "https:", host |-> "h", path |-> <<"n">>, slashes |-> 0])],
    [name |-> "Test Source 2",
     url |-> BaseStr([scheme |-> "https:", host |-> "h", path |-> <<>>, slashes |-> 1])] >>

\* landing pages a source may serve
LandingPages == {
    <<>>,
    << <<"a">>, <<"#">>, <<"/", "a">> >>,
    << <<"/", "a">>, <<"/", "n", "/", "a">>, <<"/", "b">>, <<"b">> >>
}

\* how fetching a landing page ends: requests.get and raise_for_status raise a
\* RequestException (connection error, timeout, HTTP error status), anything
\* else up to and including _extract_article_links raises another exception
FetchFailures == {"ConnectionError", "Timeout", "HTTPError", "Exception"}

IsRequestException(e) == e \in {"ConnectionError", "Timeout", "HTTPError"}

\* collector.py:134 -- except requests.RequestException
SourceHandles(e) == IsRequestException(e)

\* variant: collect_news handles only what _collect_from_source handles
BatchHandlesRequestException(e) == IsRequestException(e)

\* collector.py:85 -- except Exception
BatchHandles(e) == TRUE

\* variant: the slice keeps one link more
CapOneMore(ls, k) == SliceTo(ls, k + 1)

\* collector.py:123 -- article_links[:self.max_articles_per_source]
Cap(ls, k) == SliceTo(ls, k)

\* variant: strictly newer than the cutoff
IsRecentStrict(date, cutoff) == date > cutoff

\* collector.py:98 -- df["date"] >= cutoff_date
IsRecent(date, cutoff) == date >= cutoff

\* collector.py:97 -- datetime.now() - timedelta(days=self.days_to_look_back)
CutoffDate(clock, days) == clock - days

\* variant: the rows that pass come out newest source first
FilterByDateReversed(rows, cutoff) ==
    LET kept == SelectSeq(rows, LAMBDA r : IsRecent(r.date, cutoff))
    IN [i \in DOMAIN kept |-> kept[Len(kept) + 1 - i]]

\* collector.py:93-98
FilterByDate(rows, cutoff) == SelectSeq(rows, LAMBDA r : IsRecent(r.date, cutoff))

----------------------------------------------------------------------------
(* The components that are not running *)

NoGen == [stage |-> "uncalled", summary |-> <<>>]

NothingInvoked == [tokenizer |-> 0, model |-> 0, pipeline |-> 0]

NoSummarizeCall ==
    [text |-> <<>>, gen |-> NoGen, path |-> "none", passed |-> <<>>,
     calls |-> NothingInvoked, ret |-> <<>>, raised |-> FALSE]

SummOff ==
    /\ spc = "off"
    /\ s_model = "unset"
    /\ s_tokenizer = "unset"
    /\ s_pipeline = "unset"
    /\ loads = <<>>
    /\ sumCalls = 0
    /\ invoked = NothingInvoked
    /\ lastSum = NoSummarizeCall

NoCfg == [model |-> "", temperature |-> 0, max_tokens |-> 0]

NoOp == [op |-> "none", input |-> <<>>, calls |-> <<>>, output |-> <<>>, raised |-> FALSE]

HumorOff ==
    /\ hpc = "off"
    /\ api_key = <<>>
    /\ h_cfg = NoCfg
    /\ lastOp = NoOp

MainOff ==
    /\ mpc = "off"
    /\ m_df = <<>>
    /\ stageLog = <<>>
    /\ m_status = <<>>
    /\ m_raised = FALSE

NoEnviron ==
    [MAX_ARTICLES_PER_SOURCE |-> <<>>, DAYS_TO_LOOK_BACK |-> <<>>,
     SUMMARY_MIN_LENGTH |-> <<>>, SUMMARY_MAX_LENGTH |-> <<>>,
     HUMOR_TEMPERATURE |-> <<>>, OUTPUT_FORMAT |-> <<>>]

NoConfig ==
    [max_articles_per_source |-> 0, days_to_look_back |-> 0,
     summary_min_length |-> 0, summary_max_length |-> 0,
     humor_temperature |-> [nan |-> FALSE, num |-> 0, scale |-> 0],
     output_format |-> <<>>]

FormatterOff ==
    /\ fpc = "none"
    /\ f_output_format = <<>>
    /\ rendered = <<>>
    /\ extension = <<>>
    /\ f_filepath = <<>>

ConfigOff ==
    /\ cpc = "off"
    /\ environ = NoEnviron
    /\ config = NoConfig
    /\ handed = <<>>
    /\ FormatterOff

PipeOff == SummOff /\ HumorOff /\ MainOff /\ ConfigOff

CollOff ==
    /\ pc = "off"
    /\ max_articles_per_source = 1
    /\ days_to_look_back = 1
    /\ now = 0
    /\ srcIdx = 0
    /\ article_links = <<>>
    /\ discovered = <<>>
    /\ linkIdx = 0
    /\ articles = <<>>
    /\ attempts = <<>>
    /\ lastExtract = [o |-> NoOutcome, raised |-> FALSE, ret |-> <<>>]
    /\ articles_data = <<>>
    /\ srcLog = <<>>
    /\ result = <<>>
    /\ raised = FALSE

\* NewsCollector(sources, max_articles_per_source, days_to_look_back)
Init ==
    /\ LinksOff
    /\ PipeOff
    /\ pc = "start"
    /\ max_articles_per_source \in 1..MaxCap
    /\ days_to_look_back \in 1..MaxLookback
    /\ now = MaxLookback + 1
    /\ srcIdx = 0
    /\ article_links = <<>>
    /\ discovered = <<>>
    /\ linkIdx = 0
    /\ articles = <<>>
    /\ attempts = <<>>
    /\ lastExtract = [o |-> NoOutcome, raised |-> FALSE, ret |-> <<>>]
    /\ articles_data = <<>>
    /\ srcLog = <<>>
    /\ result = <<>>
    /\ raised = FALSE

\* collector.py:77-79 -- collect_news is entered
CollectNews ==
    /\ pc = "start"
    /\ articles_data' = <<>>
    /\ srcIdx' = 1
    /\ pc' = "sources"
    /\ UNCHANGED <<max_articles_per_source, days_to_look_back, now, article_links,
                   discovered, linkIdx, articles, attempts, lastExtract, srcLog,
                   result, raised, linkVars, pipeVars>>

\* collector.py:113-117, 134-137, 85-86 -- the landing page of the next source
\* cannot be fetched or parsed
FetchFails(e) ==
    /\ pc = "sources"
    /\ srcIdx <= Len(Sources)
    /\ articles' = <<>>
    /\ attempts' = <<>>
    /\ article_links' = <<>>
    /\ discovered' = <<>>
    /\ linkIdx' = 0
    /\ IF SourceHandles(e) \/ BatchHandles(e)
       THEN /\ srcLog' = Append(srcLog, [fetch |-> e, records |-> <<>>])
            /\ srcIdx' = srcIdx + 1
            /\ UNCHANGED <<pc, raised>>
       ELSE /\ raised' = TRUE
            /\ pc' = "done"
            /\ UNCHANGED <<srcLog, srcIdx>>
    /\ UNCHANGED <<max_articles_per_source, days_to_look_back, now, lastExtract,
                   articles_data, result, linkVars, pipeVars>>

\* collector.py:112-123 -- the landing page is fetched, its links discovered
\* and capped
FetchOk(page) ==
    /\ pc = "sources"
    /\ srcIdx <= Len(Sources)
    /\ articles' = <<>>
    /\ attempts' = <<>>
    /\ discovered' = extract_article_links(page, Sources[srcIdx].url)
    /\ article_links' = Cap(discovered', max_articles_per_source)
    /\ linkIdx' = 1
    /\ pc' = "links"
    /\ UNCHANGED <<max_articles_per_source, days_to_look_back, now, srcIdx,
                   lastExtract, articles_data, srcLog, result, raised, linkVars, pipeVars>>

\* the extractor as _collect_from_source calls it: the method itself, or the
\* test double that tests/test_collector.py:44 puts in its place, raising
ExtractorCall(url, source_name, o, clock) ==
    IF o.kind = "stub_raises" THEN [raised |-> TRUE, ret |-> <<>>]
    ELSE extract_article_content(url, source_name, o, clock)

\* variant: no handler around the extractor call
LinkHandlesNothing(e) == FALSE

\* collector.py:131 -- except Exception, around one extractor call
LinkHandles(e) == TRUE

\* variant: a link whose extraction gave no record is tried again
NextLinkRetry(i, gotRecord) == IF gotRecord THEN i + 1 ELSE i

\* collector.py:126 -- `for url in article_links`: the loop moves on to the
\* next link whatever the extraction returned
NextLink(i, gotRecord) == i + 1

\* collector.py:126-132 -- one iteration of `for url in article_links`.  What
\* the extractor raises is an Exception: handled here, the loop goes on; not
\* handled here, it leaves the loop for the handlers of FetchFails
ExtractLink(o) ==
    /\ pc = "links"
    /\ linkIdx <= Len(article_links)
    /\ LET url == article_links[linkIdx]
           r == ExtractorCall(url, Sources[srcIdx].name, o, now)
           escapes == r.raised /\ ~LinkHandles("Exception")
       IN  /\ articles' = IF ~r.raised /\ r.ret # <<>>
                          THEN Append(articles, r.ret[1]) ELSE articles
           /\ attempts' = Append(attempts,
                  [url |-> url,
                   status |-> IF r.raised THEN "raised"
                              ELSE IF r.ret = <<>> THEN "none" ELSE "record"])
           /\ lastExtract' = [o |-> o, raised |-> r.raised, ret |-> r.ret]
           /\ IF ~escapes
              THEN /\ linkIdx' = NextLink(linkIdx, ~r.raised /\ r.ret # <<>>)
                   /\ UNCHANGED <<pc, srcIdx, articles_data, srcLog, raised>>
              ELSE IF SourceHandles("Exception")
              THEN /\ articles_data' = articles_data \o articles'
                   /\ srcLog' = Append(srcLog, [fetch |-> "ok", records |-> articles'])
                   /\ srcIdx' = srcIdx + 1
                   /\ pc' = "sources"
                   /\ UNCHANGED <<linkIdx, raised>>
              ELSE IF BatchHandles("Exception")
              THEN /\ srcLog' = Append(srcLog, [fetch |-> "ok", records |-> <<>>])
                   /\ srcIdx' = srcIdx + 1
                   /\ pc' = "sources"
                   /\ UNCHANGED <<linkIdx, articles_data, raised>>
              ELSE /\ raised' = TRUE
                   /\ pc' = "done"
                   /\ UNCHANGED <<linkIdx, srcIdx, articles_data, srcLog>>
    /\ UNCHANGED <<max_articles_per_source, days_to_look_back, now,
                   article_links, discovered, result, linkVars, pipeVars>>

\* collector.py:137, 82-84 -- _collect_from_source returns, collect_news
\* extends articles_data
ReturnFromSource ==
    /\ pc = "links"
    /\ linkIdx > Len(article_links)
    /\ articles_data' = articles_data \o articles
    /\ srcLog' = Append(srcLog, [fetch |-> "ok", records |-> articles])
    /\ srcIdx' = srcIdx + 1
    /\ pc' = "sources"
    /\ UNCHANGED <<max_articles_per_source, days_to_look_back, now, article_links,
                   discovered, linkIdx, articles, attempts, lastExtract, result,
                   raised, linkVars, pipeVars>>

\* collector.py:88-100 -- after the last source: the empty frame, or the rows
\* that pass the date filter; `elapsed` is the time the run took so far
ReturnResult(elapsed) ==
    /\ pc = "sources"
    /\ srcIdx > Len(Sources)
    /\ now' = now + elapsed
    /\ result' = IF articles_data = <<>> THEN <<>>
                 ELSE FilterByDate(articles_data, CutoffDate(now', days_to_look_back))
    /\ pc' = "done"
    /\ UNCHANGED <<max_articles_per_source, days_to_look_back, srcIdx,
                   article_links, discovered, linkIdx, articles, attempts,
                   lastExtract, articles_data, srcLog, raised, linkVars, pipeVars>>

\* the publish dates pages carry: around the cutoff of the configured look-back
PublishDates == {now - days_to_look_back - 1, now - days_to_look_back,
                 now - days_to_look_back + 1}

StubOutcome == [kind |-> "stub_raises"] @@ NoPage

Next ==
    \/ CollectNews
    \/ \E e \in FetchFailures : FetchFails(e)
    \/ \E page \in LandingPages : FetchOk(page)
    \/ \E o \in PageOutcomes(PublishDates) \cup {StubOutcome} : ExtractLink(o)
    \/ ReturnFromSource
    \/ \E elapsed \in {0, 1} : ReturnResult(elapsed)

Spec == Init /\ [][Next]_vars

----------------------------------------------------------------------------
(* _extract_article_links on its own *)

InitLinks ==
    /\ CollOff
    /\ PipeOff
    /\ lpc = "start"
    /\ soup \in Pages
    /\ base_url \in BaseUrls
    /\ links = <<>>
    /\ unique_links = <<>>

NextLinks == ExtractArticleLinks

SpecLinks == InitLinks /\ [][NextLinks]_vars

----------------------------------------------------------------------------
(* ArticleSummarizer (summarization/summarizer.py) *)

\* summarizer.py:82
max_input_length == 1024

\* summarizer.py:96 -- text[:500]
fallback_length == 500

\* summarizer.py:96 -- "..."
Ellipsis == <<".", ".", ".">>

\* variant: the empty text is not recognised
IsFalsyNever(text) == FALSE

\* summarizer.py:76 -- `not text` for a str
IsFalsy(text) == text = <<>>

\* variant: the text is never cut
TruncateNever(text) == text

\* summarizer.py:83-85 -- the text after the word limit
Truncate(text) ==
    LET words == SplitWhitespace(text)
    IN IF Len(words) > max_input_length
       THEN JoinWords(SliceTo(words, max_input_length), <<" ">>)
       ELSE text

\* summarizer.py:88 -- `self.model and self.tokenizer`
UsesModel(model, tokenizer) == model = "obj" /\ tokenizer = "obj"

\* summarizer.py:98-122 -- tokenizer(...), model.generate(...), tokenizer.decode(...)
\* gen.stage names the call that raises ("none": no call raises)
summarize_with_pegasus(text, gen) ==
    CASE gen.stage = "tokenize" ->
           [raised |-> TRUE, ret |-> <<>>,
            calls |-> [tokenizer |-> 1, model |-> 0, pipeline |-> 0]]
      [] gen.stage = "generate" ->
           [raised |-> TRUE, ret |-> <<>>,
            calls |-> [tokenizer |-> 1, model |-> 1, pipeline |-> 0]]
      [] gen.stage = "decode" ->
           [raised |-> TRUE, ret |-> <<>>,
            calls |-> [tokenizer |-> 2, model |-> 1, pipeline |-> 0]]
      [] OTHER ->
           [raised |-> FALSE, ret |-> gen.summary,
            calls |-> [tokenizer |-> 2, model |-> 1, pipeline |-> 0]]

\* summarizer.py:124-141 -- self.summarization_pipeline(...), summary[0]["summary_text"]
\* gen.stage: "call" (the pipeline raises), "index" (it returns an empty list)
summarize_with_pipeline(text, gen) ==
    IF gen.stage \in {"call", "index"}
    THEN [raised |-> TRUE, ret |-> <<>>,
          calls |-> [tokenizer |-> 0, model |-> 0, pipeline |-> 1]]
    ELSE [raised |-> FALSE, ret |-> gen.summary,
          calls |-> [tokenizer |-> 0, model |-> 0, pipeline |-> 1]]

\* variant: summarize has no exception handler
SummarizeHandlesNothing(stage) == FALSE

\* summarizer.py:93 -- except Exception; every failure of the generation
\* calls is an Exception
SummarizeHandles(stage) == TRUE

\* summarizer.py:66-96
summarize(model, tokenizer, text, gen) ==
    IF IsFalsy(text)
    THEN [text |-> text, gen |-> NoGen, path |-> "none", passed |-> <<>>,
          calls |-> NothingInvoked, ret |-> <<>>, raised |-> FALSE]
    ELSE LET truncated == Truncate(text)
             path == IF UsesModel(model, tokenizer) THEN "pegasus" ELSE "pipeline"
             out  == IF path = "pegasus"
                     THEN summarize_with_pegasus(truncated, gen)
                     ELSE summarize_with_pipeline(truncated, gen)
         IN [text   |-> text,
             gen    |-> gen,
             path   |-> path,
             passed |-> truncated,
             calls  |-> out.calls,
             ret    |-> IF ~out.raised THEN out.ret
                        ELSE IF SummarizeHandles(gen.stage)
                             THEN SliceTo(truncated, fallback_length) \o Ellipsis
                             ELSE <<>>,
             raised |-> out.raised /\ ~SummarizeHandles(gen.stage)]

----------------------------------------------------------------------------
(* Inputs of ArticleSummarizer *)

\* n one-letter words, each followed by sep except the last
WordsText(n, sep) ==
    [i \in 1..(2 * n - 1) |->
        IF i % 2 = 0 THEN sep
        ELSE IF (i \div 2) % 2 = 0 THEN "a" ELSE "b"]

Texts ==
    { <<>>,
      <<" ">>,
      <<"a", " ", "b">>,
      <<"\n">> \o WordsText(max_input_length, "\n"),
      <<" ">> \o WordsText(max_input_length + 1, "\n") \o <<" ">> }

Summaries == { <<>>, <<"s">> }

PegasusOutcomes ==
    [stage : {"tokenize", "generate", "decode"}, summary : {<<>>}]
        \cup [stage : {"none"}, summary : Summaries]

PipelineOutcomes ==
    [stage : {"call", "index"}, summary : {<<>>}]
        \cup [stage : {"none"}, summary : Summaries]

\* PegasusTokenizer.from_pretrained / PegasusForConditionalGeneration.from_pretrained
LoadOutcomes == {"ok", "tokenizer_fails", "model_fails"}

\* pipeline("summarization", ...)
PipelineCtorOutcomes == {"ok", "raises"}

----------------------------------------------------------------------------
(* ArticleSummarizer: construction and calls *)

\* summarizer.py:49-64 -- _load_model: the attributes it leaves, and whether
\* it raises (line 62 runs inside the handler, unguarded)
load_model(load, pipe) ==
    IF load = "ok"
    THEN [raised |-> FALSE, tokenizer |-> "obj", model |-> "obj", pipeline |-> "unset"]
    ELSE IF pipe = "ok"
         THEN [raised |-> FALSE, tokenizer |-> "None", model |-> "None", pipeline |-> "obj"]
         ELSE [raised |-> TRUE,
               tokenizer |-> IF load = "model_fails" THEN "obj" ELSE "unset",
               model |-> "unset", pipeline |-> "unset"]

\* summarizer.py:22-47 -- __init__, which ends with _load_model()
NewSummarizer(load, pipe) ==
    /\ spc = "new"
    /\ loads' = Append(loads, load)
    /\ LET loaded == load_model(load, pipe)
       IN /\ s_tokenizer' = loaded.tokenizer
          /\ s_model' = loaded.model
          /\ s_pipeline' = loaded.pipeline
          /\ spc' = IF loaded.raised THEN "ctor_raised" ELSE "ready"
    /\ UNCHANGED <<sumCalls, invoked, lastSum, linkVars, collVars, humVars, mainVars, cfgVars>>

\* one call of summarize on the constructed instance
Summarize(text, gen) ==
    /\ spc = "ready"
    /\ sumCalls < MaxSummarizeCalls
    /\ lastSum' = summarize(s_model, s_tokenizer, text, gen)
    /\ invoked' = [k \in DOMAIN invoked |-> invoked[k] + lastSum'.calls[k]]
    /\ sumCalls' = sumCalls + 1
    /\ UNCHANGED <<spc, s_model, s_tokenizer, s_pipeline, loads, linkVars, collVars, humVars,
                   mainVars, cfgVars>>

InitSumm ==
    /\ LinksOff
    /\ CollOff
    /\ HumorOff
    /\ MainOff
    /\ ConfigOff
    /\ spc = "new"
    /\ s_model = "unset"
    /\ s_tokenizer = "unset"
    /\ s_pipeline = "unset"
    /\ loads = <<>>
    /\ sumCalls = 0
    /\ invoked = NothingInvoked
    /\ lastSum = NoSummarizeCall

NextSumm ==
    \/ \E load \in LoadOutcomes, pipe \in PipelineCtorOutcomes : NewSummarizer(load, pipe)
    \/ \E text \in Texts :
          \E gen \in IF UsesModel(s_model, s_tokenizer)
                      THEN PegasusOutcomes ELSE PipelineOutcomes :
             Summarize(text, gen)

SpecSumm == InitSumm /\ [][NextSumm]_vars

----------------------------------------------------------------------------
(* HumorGenerator (humor/humorizer.py) *)

\* str.strip(): without the leading and the trailing whitespace
StripWhitespace(s) ==
    LET kept == {i \in 1..Len(s) : ~IsWhitespace(s[i])}
    IN IF kept = {} THEN <<>>
       ELSE SubSeq(s, CHOOSE i \in kept : \A j \in kept : i <= j,
                      CHOOSE i \in kept : \A j \in kept : i >= j)

\* variant: only a missing variable counts, an empty one does not
KeyMissingNoneOnly(key) == key = <<>>

\* humorizer.py:61 -- `not openai.api_key`: None or the empty string
KeyMissing(key) == key = <<>> \/ key[1] = <<>>

\* variant: one line break between title and summary
PassThroughOneNewline(title, summary) == title \o <<"\n">> \o summary

\* humorizer.py:63 and 87 -- f"{title}\n\n{summary}"
PassThrough(title, summary) == title \o <<"\n", "\n">> \o summary

\* humorizer.py:89-108 -- the template around title and summary
create_prompt(title, summary) ==
    <<"\n", "Rewrite this AI news summary in a humorous, entertaining way:",
      "\n", "Title: ">> \o title \o <<"\n", "Summary: ">> \o summary
        \o <<"\n", "Make it witty, include some puns related to AI, and maintain all the key facts.",
             "\n">>

\* humorizer.py:73 -- the system message
SystemPersona ==
    <<"You are a witty tech journalist specializing in AI news with a great sense of humor.">>

\* humorizer.py:70-78 -- the arguments of openai.ChatCompletion.create
RequestOf(cfg, title, summary) ==
    [model       |-> cfg.model,
     temperature |-> cfg.temperature,
     max_tokens  |-> cfg.max_tokens,
     messages    |-> << [role |-> "system", content |-> SystemPersona],
                        [role |-> "user", content |-> create_prompt(title, summary)] >>]

\* variant: only errors raised by the request itself are handled
HumorHandlesRequestErrors(kind) == kind \in {"network_error", "api_error"}

\* humorizer.py:85 -- except Exception: the errors of the request, the
\* IndexError of choices[0], the AttributeError of None.strip()
HumorHandles(kind) == TRUE

NoResponse == [kind |-> "none", content |-> <<>>]

\* humorizer.py:50-87; out is what the service does with the request
add_humor(cfg, key, title, summary, out) ==
    IF KeyMissing(key)
    THEN [title |-> title, summary |-> summary, out |-> NoResponse,
          requests |-> <<>>, ret |-> PassThrough(title, summary), raised |-> FALSE]
    ELSE LET request == RequestOf(cfg, title, summary)
         IN IF out.kind = "ok"
            THEN [title |-> title, summary |-> summary, out |-> out,
                  requests |-> <<request>>,
                  ret |-> StripWhitespace(out.content), raised |-> FALSE]
            ELSE IF HumorHandles(out.kind)
                 THEN [title |-> title, summary |-> summary, out |-> out,
                       requests |-> <<request>>,
                       ret |-> PassThrough(title, summary), raised |-> FALSE]
                 ELSE [title |-> title, summary |-> summary, out |-> out,
                       requests |-> <<request>>, ret |-> <<>>, raised |-> TRUE]

\* humorizer.py:123 -- "title" in article and "summary" in article
HasPair(article) == article.title # <<>> /\ article.summary # <<>>

\* humorizer.py:110-128 -- the calls of add_humor made for articles[1..n],
\* up to and including the first that raises
RECURSIVE BatchCalls(_, _, _, _, _)
BatchCalls(cfg, key, batch, outs, n) ==
    IF n = 0 THEN <<>>
    ELSE LET before == BatchCalls(cfg, key, batch, outs, n - 1)
         IN IF (before # <<>> /\ before[Len(before)].call.raised) \/ ~HasPair(batch[n])
            THEN before
            ELSE Append(before,
                        [index |-> n,
                         call  |-> add_humor(cfg, key, batch[n].title[1],
                                             batch[n].summary[1], outs[n])])

\* the articles after the calls: humorous_content is set where a call returned
WithHumor(batch, calls) ==
    [i \in DOMAIN batch |->
        IF \E k \in DOMAIN calls : calls[k].index = i /\ ~calls[k].call.raised
        THEN LET k == CHOOSE k \in DOMAIN calls : calls[k].index = i
             IN [batch[i] EXCEPT !.humorous_content = <<calls[k].call.ret>>]
        ELSE batch[i]]

----------------------------------------------------------------------------
(* The stages of the orchestrator (main.py) *)

\* DataFrame.empty
IsEmptyFrame(df) == df = <<>>

\* variant: the function is applied to the first row twice
ApplyOrderFirstTwice(n) == <<1>> \o [k \in 1..n |-> k]

\* main.py:81 and 110 -- Series.apply / DataFrame.apply(axis=1): the rows
\* the function is called on, in order
ApplyOrder(n) == [k \in 1..n |-> k]

\* variant: the summaries are assigned in reverse order
WithSummaryReversed(rows, calls) ==
    [i \in DOMAIN rows |->
        LET k == CHOOSE k \in DOMAIN calls : calls[k].index = Len(rows) + 1 - i
        IN [rows[i] EXCEPT !.summary = <<calls[k].call.ret>>]]

\* main.py:81 -- articles_df["summary"] = ...: the summary of row i is what
\* the call made for row i returned
WithSummary(rows, calls) ==
    [i \in DOMAIN rows |->
        LET k == CHOOSE k \in DOMAIN calls : calls[k].index = i
        IN [rows[i] EXCEPT !.summary = <<calls[k].call.ret>>]]

\* main.py:58-85 -- summarize_articles on the rows of the DataFrame
summarize_articles(rows, load, pipe, gens) ==
    IF IsEmptyFrame(rows)
    THEN [raised |-> FALSE, output |-> rows, calls |-> <<>>]
    ELSE LET loaded == load_model(load, pipe)
         IN IF loaded.raised
            THEN [raised |-> TRUE, output |-> rows, calls |-> <<>>]
            ELSE LET order == ApplyOrder(Len(rows))
                     calls == [k \in DOMAIN order |->
                                  [index |-> order[k],
                                   call  |-> summarize(loaded.model, loaded.tokenizer,
                                                       rows[order[k]].text[1],
                                                       gens[order[k]])]]
                 IN [raised |-> \E k \in DOMAIN calls : calls[k].call.raised,
                     output |-> WithSummary(rows, calls),
                     calls  |-> calls]

\* main.py:110-113 -- the add_humor calls made for the first n rows of
\* order, up to and including the first that raises
RECURSIVE RowCalls(_, _, _, _, _, _)
RowCalls(cfg, key, rows, outs, order, n) ==
    IF n = 0 THEN <<>>
    ELSE LET before == RowCalls(cfg, key, rows, outs, order, n - 1)
             i == order[n]
         IN IF before # <<>> /\ before[Len(before)].call.raised
            THEN before
            ELSE Append(before,
                        [index |-> i,
                         call  |-> add_humor(cfg, key, rows[i].title[1],
                                             rows[i].summary[1], outs[i])])

\* main.py:88-117 -- add_humor on the rows of the DataFrame
main_add_humor(rows, cfg, key, outs) ==
    IF IsEmptyFrame(rows)
    THEN [raised |-> FALSE, output |-> rows, calls |-> <<>>]
    ELSE LET order == ApplyOrder(Len(rows))
             calls == RowCalls(cfg, key, rows, outs, order, Len(order))
         IN [raised |-> calls[Len(calls)].call.raised,
             output |-> WithHumor(rows, calls),
             calls  |-> calls]

\* main.py:104-107 -- HumorGenerator(model, temperature) with the default max_tokens
MainHumorConfig == [model |-> "gpt-4", temperature |-> 7, max_tokens |-> 500]

----------------------------------------------------------------------------
(* Inputs of HumorGenerator *)

\* os.getenv("OPENAI_API_KEY"): unset, empty, or a key
ApiKeys == { <<>>, << <<>> >>, << <<"sk">> >> }

\* temperature in tenths
HumorConfigs ==
    { [model |-> "gpt-4", temperature |-> 7, max_tokens |-> 500],
      [model |-> "gpt-3.5-turbo", temperature |-> 0, max_tokens |-> 100] }

Titles == { <<"T">>, <<"U", " ", "V">> }

HumorSummaries == { <<"S">>, <<>> }

Responses ==
    [kind : {"network_error", "api_error", "empty_choices", "no_content"},
     content : {<<>>}]
        \cup [kind : {"ok"},
              content : { <<"X", " ", "Y">>, <<"\n", " ", "X", "\n">>, <<" ", "\n">> }]

Record(title, summary) ==
    [title |-> title, summary |-> summary, humorous_content |-> <<>>]

\* records with a title and a summary
PairRecords == { Record(<< <<"T">> >>, << <<"S">> >>),
                 Record(<< <<"U", " ", "V">> >>, << <<>> >>) }

\* a dictionary without a "title" key
UntitledRecord == Record(<<>>, << <<"S">> >>)

----------------------------------------------------------------------------
(* HumorGenerator: calls *)

\* one call of HumorGenerator.add_humor
AddHumor(title, summary, out) ==
    /\ hpc = "ready"
    /\ hpc' = "returned"
    /\ lastOp' = [op |-> "add_humor", input |-> <<>>,
                  calls |-> <<[index |-> 0,
                               call |-> add_humor(h_cfg, api_key, title, summary, out)]>>,
                  output |-> <<>>, raised |-> FALSE]
    /\ UNCHANGED <<api_key, h_cfg, linkVars, collVars, summVars, mainVars, cfgVars>>

\* one call of HumorGenerator.batch_add_humor
BatchAddHumor(batch, outs) ==
    /\ hpc = "ready"
    /\ hpc' = "returned"
    /\ LET calls == BatchCalls(h_cfg, api_key, batch, outs, Len(batch))
       IN lastOp' = [op |-> "batch_add_humor", input |-> batch, calls |-> calls,
                     output |-> WithHumor(batch, calls),
                     raised |-> calls # <<>> /\ calls[Len(calls)].call.raised]
    /\ UNCHANGED <<api_key, h_cfg, linkVars, collVars, summVars, mainVars, cfgVars>>

\* main.py:88-117 -- the orchestrator's add_humor on the rows of a DataFrame
\* that has the columns title and summary
StageAddHumor(rows, outs) ==
    /\ hpc = "ready"
    /\ hpc' = "returned"
    /\ LET r == main_add_humor(rows, h_cfg, api_key, outs)
       IN lastOp' = [op |-> "stage", input |-> rows, calls |-> r.calls,
                     output |-> r.output, raised |-> r.raised]
    /\ UNCHANGED <<api_key, h_cfg, linkVars, collVars, summVars, mainVars, cfgVars>>

InitHumor ==
    /\ LinksOff
    /\ CollOff
    /\ SummOff
    /\ MainOff
    /\ ConfigOff
    /\ hpc = "ready"
    /\ api_key \in ApiKeys
    /\ h_cfg \in HumorConfigs
    /\ lastOp = NoOp

NextHumor ==
    \/ \E title \in Titles, summary \in HumorSummaries, out \in Responses :
          AddHumor(title, summary, out)
    \/ \E batch \in SeqsUpTo(PairRecords \cup {UntitledRecord}, MaxBatch) :
          \E outs \in [1..Len(batch) -> Responses] : BatchAddHumor(batch, outs)
    \/ \E rows \in SeqsUpTo(PairRecords, MaxBatch) :
          \E outs \in [1..Len(rows) -> Responses] : StageAddHumor(rows, outs)

SpecHumor == InitHumor /\ [][NextHumor]_vars

----------------------------------------------------------------------------
(* The orchestrator (main.py) *)

\* variant: main goes on with an empty collection
NothingCollectedNever(df) == FALSE

\* main.py:168 -- `if articles_df.empty`
NothingCollected(df) == IsEmptyFrame(df)

\* variant: main has no exception handler
MainHandlesNothing(stage) == FALSE

\* main.py:188 -- except Exception, around every stage
MainHandles(stage) == TRUE

\* variant: any returned value counts as a saved file
SucceededAlways(filepath) == TRUE

\* main.py:181 -- `if filepath`
Succeeded(filepath) == filepath # <<>>

\* the arguments and the result of the calls a stage made, in order
ArgsOf(calls) ==
    [k \in DOMAIN calls |->
        [index |-> calls[k].index,
         args  |-> IF "text" \in DOMAIN calls[k].call
                   THEN <<calls[k].call.text>>
                   ELSE <<calls[k].call.title, calls[k].call.summary>>,
         ret   |-> calls[k].call.ret]]

\* an entry of the stage log
StageEntry(stage, input, didRaise, output, calls) ==
    [stage |-> stage, input |-> input, raised |-> didRaise,
     output |-> IF didRaise THEN <<>> ELSE output, calls |-> ArgsOf(calls)]

\* main.py:188-190 -- the run ends in the handler, or the exception leaves main
Failed(stage) ==
    IF MainHandles(stage)
    THEN /\ m_status' = <<1>>
         /\ m_raised' = FALSE
    ELSE /\ m_status' = <<>>
         /\ m_raised' = TRUE

----------------------------------------------------------------------------
(* Inputs of the orchestrator *)

Row(title, text) ==
    [title |-> <<title>>, text |-> <<text>>, url |-> << <<"u">> >>,
     source |-> << <<"Test Source 1">> >>,
     date |-> <<0>>, summary |-> <<>>, humorous_content |-> <<>>]

\* the records ingestion can return
IngestedRows == { Row(<<"T">>, <<"a", " ", "b">>), Row(<<"U", " ", "V">>, <<"b">>) }

----------------------------------------------------------------------------
(* main(), stage by stage *)

\* main.py:163 -- load_config()
MainLoadConfig(crash) ==
    /\ mpc = "start"
    /\ stageLog' = Append(stageLog, StageEntry("load_config", <<>>, crash, <<>>, <<>>))
    /\ IF crash
       THEN /\ mpc' = "returned"
            /\ Failed("load_config")
       ELSE /\ mpc' = "configured"
            /\ UNCHANGED <<m_status, m_raised>>
    /\ UNCHANGED <<m_df, linkVars, collVars, summVars, humVars, cfgVars>>

\* main.py:166-170 -- collect_news(config) and the test for an empty collection
MainCollect(crash, frame) ==
    /\ mpc = "configured"
    /\ stageLog' = Append(stageLog, StageEntry("collect_news", <<>>, crash, frame, <<>>))
    /\ IF crash
       THEN /\ mpc' = "returned"
            /\ Failed("collect_news")
            /\ UNCHANGED m_df
       ELSE /\ m_df' = frame
            /\ IF NothingCollected(frame)
               THEN /\ mpc' = "returned"
                    /\ m_status' = <<1>>
                    /\ UNCHANGED m_raised
               ELSE /\ mpc' = "ingested"
                    /\ UNCHANGED <<m_status, m_raised>>
    /\ UNCHANGED <<linkVars, collVars, summVars, humVars, cfgVars>>

\* main.py:173 -- summarize_articles(articles_df, config)
MainSummarize(crash, load, pipe, gens) ==
    /\ mpc = "ingested"
    /\ LET r == summarize_articles(m_df, load, pipe, gens)
       IN /\ stageLog' = Append(stageLog, StageEntry("summarize_articles", m_df,
                                                    crash \/ r.raised, r.output, r.calls))
          /\ IF crash \/ r.raised
             THEN /\ mpc' = "returned"
                  /\ Failed("summarize_articles")
                  /\ UNCHANGED m_df
             ELSE /\ mpc' = "summarized"
                  /\ m_df' = r.output
                  /\ UNCHANGED <<m_status, m_raised>>
    /\ UNCHANGED <<linkVars, collVars, summVars, humVars, cfgVars>>

\* main.py:176 -- add_humor(articles_df, config)
MainAddHumor(crash, outs) ==
    /\ mpc = "summarized"
    /\ LET r == main_add_humor(m_df, MainHumorConfig, api_key, outs)
       IN /\ stageLog' = Append(stageLog, StageEntry("add_humor", m_df,
                                                    crash \/ r.raised, r.output, r.calls))
          /\ IF crash \/ r.raised
             THEN /\ mpc' = "returned"
                  /\ Failed("add_humor")
                  /\ UNCHANGED m_df
             ELSE /\ mpc' = "stylized"
                  /\ m_df' = r.output
                  /\ UNCHANGED <<m_status, m_raised>>
    /\ UNCHANGED <<linkVars, collVars, summVars, humVars, cfgVars>>

\* main.py:179-186 -- format_and_save(articles_df, config) and the status;
\* filepath is "" when the file could not be written (formatter.py:198)
MainFormatAndSave(crash, filepath) ==
    /\ mpc = "stylized"
    /\ stageLog' = Append(stageLog, StageEntry("format_and_save", m_df, crash, filepath, <<>>))
    /\ mpc' = "returned"
    /\ IF crash
       THEN Failed("format_and_save")
       ELSE /\ m_status' = IF Succeeded(filepath) THEN <<0>> ELSE <<1>>
            /\ UNCHANGED m_raised
    /\ UNCHANGED <<m_df, linkVars, collVars, summVars, humVars, cfgVars>>

InitMain ==
    /\ LinksOff
    /\ CollOff
    /\ SummOff
    /\ ConfigOff
    /\ hpc = "off"
    /\ api_key \in ApiKeys
    /\ h_cfg = NoCfg
    /\ lastOp = NoOp
    /\ mpc = "start"
    /\ m_df = <<>>
    /\ stageLog = <<>>
    /\ m_status = <<>>
    /\ m_raised = FALSE

NextMain ==
    \/ \E crash \in BOOLEAN : MainLoadConfig(crash)
    \/ \E crash \in BOOLEAN, frame \in SeqsUpTo(IngestedRows, MaxRows) :
          MainCollect(crash, frame)
    \/ \E crash \in BOOLEAN, load \in LoadOutcomes, pipe \in PipelineCtorOutcomes :
          \E gens \in [DOMAIN m_df -> IF load = "ok" THEN PegasusOutcomes
                                                     ELSE PipelineOutcomes] :
             MainSummarize(crash, load, pipe, gens)
    \/ \E crash \in BOOLEAN, outs \in [DOMAIN m_df -> Responses] : MainAddHumor(crash, outs)
    \/ \E crash \in BOOLEAN, filepath \in { <<>>, <<"out.md">> } :
          MainFormatAndSave(crash, filepath)

SpecMain == InitMain /\ [][NextMain]_vars

----------------------------------------------------------------------------
(* Config (utils/config.py)

   An environment value is a text, a sequence of characters; what int() and
   float() make of it is computed from the characters.  A float is kept as a
   decimal: num / 10^scale, or nan. *)

DigitChars == <<"0", "1", "2", "3", "4", "5", "6", "7", "8", "9">>

RECURSIVE DigitsValue(_)
DigitsValue(ds) ==
    IF ds = <<>> THEN 0
    ELSE 10 * DigitsValue(SubSeq(ds, 1, Len(ds) - 1))
         + (CHOOSE i \in DOMAIN DigitChars : DigitChars[i] = ds[Len(ds)]) - 1

AllDigits(ds) == \A i \in DOMAIN ds : \E k \in DOMAIN DigitChars : DigitChars[k] = ds[i]

Unsigned(t) == IF t # <<>> /\ t[1] \in {"+", "-"} THEN Tail(t) ELSE t

SignOf(t) == IF t # <<>> /\ t[1] = "-" THEN -1 ELSE 1

\* int(text): surrounding whitespace, an optional sign, digits; anything
\* else is a ValueError
ParseInt(text) ==
    LET t == StripWhitespace(text)
        body == Unsigned(t)
    IN IF body # <<>> /\ AllDigits(body)
       THEN [raised |-> FALSE, value |-> SignOf(t) * DigitsValue(body)]
       ELSE [raised |-> TRUE, value |-> 0]

\* float(text): surrounding whitespace, "nan", or an optional sign, digits
\* and at most one point with a digit on one side of it; anything else is a
\* ValueError
ParseFloat(text) ==
    LET t == StripWhitespace(text)
        body == Unsigned(t)
        points == {i \in DOMAIN body : body[i] = "."}
        whole == IF points = {} THEN body
                 ELSE SubSeq(body, 1, (CHOOSE i \in points : TRUE) - 1)
        frac == IF points = {} THEN <<>>
                ELSE SubSeq(body, (CHOOSE i \in points : TRUE) + 1, Len(body))
    IN IF body = <<"n", "a", "n">>
       THEN [raised |-> FALSE, value |-> [nan |-> TRUE, num |-> 0, scale |-> 0]]
       ELSE IF /\ Cardinality(points) <= 1
               /\ whole \o frac # <<>>
               /\ AllDigits(whole \o frac)
       THEN [raised |-> FALSE,
             value |-> [nan |-> FALSE,
                        num |-> SignOf(t) * DigitsValue(whole \o frac),
                        scale |-> Len(frac)]]
       ELSE [raised |-> TRUE, value |-> [nan |-> FALSE, num |-> 0, scale |-> 0]]

RECURSIVE Pow10(_)
Pow10(n) == IF n = 0 THEN 1 ELSE 10 * Pow10(n - 1)

\* a <= b on floats: false whenever one side is nan
FloatLeq(a, b) ==
    /\ ~a.nan
    /\ ~b.nan
    /\ a.num * Pow10(b.scale) <= b.num * Pow10(a.scale)

\* os.getenv(name, default)
Getenv(env, name, default) == IF env[name] = <<>> THEN default ELSE env[name][1]

Markdown == <<"m", "a", "r", "k", "d", "o", "w", "n">>

Html == <<"h", "t", "m", "l">>

\* config.py:37-66 -- _load_config: the dictionary, or the ValueError of the
\* first conversion that fails
LoadConfigDict(env) ==
    LET a == ParseInt(Getenv(env, "MAX_ARTICLES_PER_SOURCE", <<"5">>))
        d == ParseInt(Getenv(env, "DAYS_TO_LOOK_BACK", <<"3">>))
        lo == ParseInt(Getenv(env, "SUMMARY_MIN_LENGTH", <<"5", "0">>))
        hi == ParseInt(Getenv(env, "SUMMARY_MAX_LENGTH", <<"1", "5", "0">>))
        t == ParseFloat(Getenv(env, "HUMOR_TEMPERATURE", <<"0", ".", "7">>))
    IN [raised |-> a.raised \/ d.raised \/ lo.raised \/ hi.raised \/ t.raised,
        config |-> [max_articles_per_source |-> a.value,
                    days_to_look_back |-> d.value,
                    summary_min_length |-> lo.value,
                    summary_max_length |-> hi.value,
                    humor_temperature |-> t.value,
                    output_format |-> Getenv(env, "OUTPUT_FORMAT", Markdown)]]

\* config.py:78-83
NumericKeys == {"max_articles_per_source", "days_to_look_back",
                "summary_min_length", "summary_max_length"}

\* variant: zero passes
IsInvalidNumberNegativeOnly(v) == v < 0

\* config.py:84
IsInvalidNumber(v) == v <= 0

\* config.py:90-97
DefaultOf(key) ==
    IF key = "max_articles_per_source" THEN 5
    ELSE IF key = "days_to_look_back" THEN 3
    ELSE IF key = "summary_min_length" THEN 50
    ELSE 150

\* config.py:100 -- 0.0 <= t <= 1.0
TemperatureInRange(t) ==
    /\ FloatLeq([nan |-> FALSE, num |-> 0, scale |-> 1], t)
    /\ FloatLeq(t, [nan |-> FALSE, num |-> 10, scale |-> 1])

\* config.py:105
DefaultTemperature == [nan |-> FALSE, num |-> 7, scale |-> 1]

\* config.py:68-113 -- _validate_config
ValidateConfig(cfg) ==
    LET fix(key) == IF IsInvalidNumber(cfg[key]) THEN DefaultOf(key) ELSE cfg[key]
    IN [max_articles_per_source |-> fix("max_articles_per_source"),
        days_to_look_back |-> fix("days_to_look_back"),
        summary_min_length |-> fix("summary_min_length"),
        summary_max_length |-> fix("summary_max_length"),
        humor_temperature |-> IF ~TemperatureInRange(cfg.humor_temperature)
                              THEN DefaultTemperature ELSE cfg.humor_temperature,
        output_format |-> IF cfg.output_format \notin {Markdown, Html}
                          THEN Markdown ELSE cfg.output_format]

\* config.py:115-126 -- Config.get
ConfigGet(cfg, key, default) == IF key \in DOMAIN cfg THEN cfg[key] ELSE default

(* NewsletterFormatter (utils/formatter.py) *)

\* str.lower()
Lower(s) ==
    LET upper == <<"A", "B", "C", "D", "E", "F", "G", "H", "I", "J", "K", "L", "M",
                   "N", "O", "P", "Q", "R", "S", "T", "U", "V", "W", "X", "Y", "Z">>
        lower == <<"a", "b", "c", "d", "e", "f", "g", "h", "i", "j", "k", "l", "m",
                   "n", "o", "p", "q", "r", "s", "t", "u", "v", "w", "x", "y", "z">>
    IN [i \in DOMAIN s |->
           IF \E k \in DOMAIN upper : upper[k] = s[i]
           THEN lower[CHOOSE k \in DOMAIN upper : upper[k] = s[i]]
           ELSE s[i]]

\* formatter.py:49-55 -- format_newsletter: the renderer it returns the
\* output of
format_newsletter(output_format) ==
    IF output_format = Markdown THEN "markdown"
    ELSE IF output_format = Html THEN "html"
    ELSE "markdown"

\* formatter.py:189
ExtensionOf(output_format) == IF output_format = Markdown THEN ".md" ELSE ".html"

(* Inputs *)

MaxEnvInt == 2

\* the decimal text of an integer
RECURSIVE IntText(_)
IntText(n) ==
    IF n < 0 THEN <<"-">> \o IntText(-n)
    ELSE IF n < 10 THEN <<DigitChars[n + 1]>>
    ELSE IntText(n \div 10) \o <<DigitChars[(n % 10) + 1]>>

\* unset, an integer around zero, or not a number
IntTexts == {<<>>, << <<"x">> >>} \cup {<<IntText(n)>> : n \in -1..MaxEnvInt}

TemperatureTexts ==
    {<<>>, << <<"0", ".", "0">> >>, << <<"1", ".", "0">> >>,
     << <<"1", ".", "0", "1">> >>, << <<"-", "0", ".", "1">> >>,
     << <<"n", "a", "n">> >>}

FormatTexts == {Markdown, Html, <<"H", "T", "M", "L">>, <<"p", "d", "f">>}

Environs ==
    [MAX_ARTICLES_PER_SOURCE : IntTexts, DAYS_TO_LOOK_BACK : IntTexts,
     SUMMARY_MIN_LENGTH : IntTexts, SUMMARY_MAX_LENGTH : IntTexts,
     HUMOR_TEMPERATURE : TemperatureTexts,
     OUTPUT_FORMAT : {<<>>} \cup {<<f>> : f \in FormatTexts}]

(* Actions *)

\* config.py:21-35, main.py:162 -- Config(): load, then validate; a
\* ValueError of a conversion leaves the constructor
ConfigConstruct ==
    /\ cpc = "env"
    /\ LET l == LoadConfigDict(environ)
       IN IF l.raised
          THEN cpc' = "ctor_raised" /\ config' = config
          ELSE cpc' = "configured" /\ config' = ValidateConfig(l.config)
    /\ UNCHANGED <<environ, handed, fpc, f_output_format, rendered, extension,
                   f_filepath, linkVars, collVars, summVars, humVars, mainVars>>

\* main.py:74-78 -- summarize_articles builds the ArticleSummarizer
HandToSummarizer ==
    /\ cpc = "configured"
    /\ handed' = <<[min_length |-> ConfigGet(config, "summary_min_length", 0),
                    max_length |-> ConfigGet(config, "summary_max_length", 0)]>>
    /\ cpc' = "handed"
    /\ UNCHANGED <<environ, config, fpc, f_output_format, rendered, extension,
                   f_filepath, linkVars, collVars, summVars, humVars, mainVars>>

\* formatter.py:21-37 -- NewsletterFormatter(output_format=...)
NewFormatter(output_format) ==
    /\ fpc = "none"
    /\ f_output_format' = Lower(output_format)
    /\ fpc' = "constructed"
    /\ UNCHANGED <<cpc, environ, config, handed, rendered, extension, f_filepath,
                   linkVars, collVars, summVars, humVars, mainVars>>

\* main.py:136-139 -- format_and_save builds the formatter from the Config
FormatterFromConfig ==
    /\ cpc = "handed"
    /\ NewFormatter(ConfigGet(config, "output_format", <<>>))

\* tests/test_formatter.py -- a formatter built on its own
FormatterDirect(output_format) ==
    /\ cpc = "standalone"
    /\ NewFormatter(output_format)

\* formatter.py:39-55
FormatNewsletter ==
    /\ fpc = "constructed"
    /\ rendered' = <<format_newsletter(f_output_format)>>
    /\ fpc' = "rendered"
    /\ UNCHANGED <<cpc, environ, config, handed, f_output_format, extension,
                   f_filepath, linkVars, collVars, summVars, humVars, mainVars>>

\* formatter.py:174-198 -- save_newsletter: the path ends with the extension,
\* or "" is returned when the file cannot be written
SaveNewsletter(written) ==
    /\ fpc = "rendered"
    /\ extension' = <<ExtensionOf(f_output_format)>>
    /\ f_filepath' = IF written THEN extension' ELSE <<>>
    /\ fpc' = "saved"
    /\ UNCHANGED <<cpc, environ, config, handed, f_output_format, rendered,
                   linkVars, collVars, summVars, humVars, mainVars>>

InitConfig ==
    /\ LinksOff
    /\ CollOff
    /\ SummOff
    /\ HumorOff
    /\ MainOff
    /\ FormatterOff
    /\ config = NoConfig
    /\ handed = <<>>
    /\ \/ cpc = "env" /\ environ \in Environs
       \/ cpc = "standalone" /\ environ = NoEnviron

NextConfig ==
    \/ ConfigConstruct
    \/ HandToSummarizer
    \/ FormatterFromConfig
    \/ \E f \in FormatTexts : FormatterDirect(f)
    \/ FormatNewsletter
    \/ \E written \in BOOLEAN : SaveNewsletter(written)

SpecConfig == InitConfig /\ [][NextConfig]_vars

----------------------------------------------------------------------------
(* Properties of NewsCollector *)

RECURSIVE Flatten(_)
Flatten(ss) == IF ss = <<>> THEN <<>> ELSE ss[1] \o Flatten(Tail(ss))

SourceReturned ==
    pc = "sources" /\ srcLog # <<>> /\ srcLog[Len(srcLog)].fetch = "ok"

UrlsOf(rows) == [i \in DOMAIN rows |-> rows[i].url]

\* C1: in the collection collect_news returns, no two records have the same
\* url (the first occurrence is kept, later ones are dropped).
C1_UrlsUnique ==
    pc = "done" =>
        \A i, j \in DOMAIN result : i # j => result[i].url # result[j].url

\* C2: collect_news never raises because a source failed: a source whose
\* landing page cannot be fetched contributes no record, every source is
\* still processed and the records of the others are collected and, when
\* recent, returned; when every source fails the result is empty.
C2_SourceFailureIsolated ==
    /\ ~raised
    /\ \A i \in DOMAIN srcLog : srcLog[i].fetch # "ok" => srcLog[i].records = <<>>
    /\ pc = "done" =>
        /\ Len(srcLog) = Len(Sources)
        /\ articles_data = Flatten([i \in DOMAIN srcLog |-> srcLog[i].records])
        /\ \A i \in DOMAIN srcLog : \A k \in DOMAIN srcLog[i].records :
               srcLog[i].records[k].date >= now - days_to_look_back
                   => srcLog[i].records[k] \in Range(result)
        /\ (\A i \in DOMAIN srcLog : srcLog[i].fetch # "ok") => result = <<>>

C2_Witness ==
    /\ pc = "done"
    /\ srcLog[1].fetch = "Exception"
    /\ srcLog[2].fetch = "ok"
    /\ srcLog[2].records # <<>>
    /\ result = srcLog[2].records

\* C3: within _collect_from_source a link whose extraction returns None or
\* raises does not end the source: every capped link is attempted, and the
\* source returns the records of the links that succeeded, in link order.
C3_LinkFailureIsolated ==
    /\ pc = "links" => Len(attempts) = linkIdx - 1
    /\ SourceReturned =>
        /\ Len(attempts) = Len(article_links)
        /\ \A i \in DOMAIN attempts : attempts[i].url = article_links[i]
        /\ UrlsOf(srcLog[Len(srcLog)].records)
               = UrlsOf(SelectSeq(attempts, LAMBDA a : a.status = "record"))

C3_Witness ==
    /\ SourceReturned
    /\ Len(attempts) = 2
    /\ attempts[1].status = "raised"
    /\ attempts[2].status = "record"
    /\ Len(srcLog[Len(srcLog)].records) = 1

\* C4: for a source whose page yields n distinct links, with
\* max_articles_per_source = K > 0, exactly min(n, K) extractor calls are
\* made, on the first min(n, K) links in discovery order.
C4_CapEnforced ==
    /\ pc = "links" => Len(attempts) <= Min(Len(discovered), max_articles_per_source)
    /\ SourceReturned =>
        /\ Len(attempts) = Min(Len(discovered), max_articles_per_source)
        /\ \A i \in DOMAIN attempts : attempts[i].url = discovered[i]

C4_Witness ==
    /\ SourceReturned
    /\ Len(discovered) > max_articles_per_source
    /\ max_articles_per_source = 2
    /\ Len(attempts) = 2

C10_ExtractorNeverRaises ==
    /\ lastExtract.o.kind # "stub_raises" => ~lastExtract.raised
    /\ (\/ lastExtract.o.kind \in {"download_fails", "parse_throws"}
        \/ lastExtract.o.title = ""
        \/ lastExtract.o.text = "") => lastExtract.ret = <<>>
    /\ (/\ lastExtract.o.kind = "parsed"
        /\ lastExtract.o.title # ""
        /\ lastExtract.o.text # "")
           => /\ Len(lastExtract.ret) = 1
              /\ lastExtract.ret[1].title = lastExtract.o.title
              /\ lastExtract.ret[1].text = lastExtract.o.text
    /\ \A r \in Range(articles) \cup Range(articles_data) \cup Range(result) :
           r.title # "" /\ r.text # ""

C10_Witness ==
    /\ pc = "links"
    /\ lastExtract.o.kind = "parsed"
    /\ lastExtract.o.title # ""
    /\ lastExtract.o.text = ""
    /\ lastExtract.ret = <<>>
    /\ Len(articles) = 1

----------------------------------------------------------------------------
(* Properties of _extract_article_links *)

Schemes == {"http:", "https:", "mailto:", "javascript:"}

HasScheme(href) == href # <<>> /\ href[1] \in Schemes

IsRootRelative(href) == href # <<>> /\ href[1] = "/"

IsFullyRelative(href) == href # <<>> /\ href[1] \notin Schemes \cup {"/"}

FirstIndex(ls, x) == CHOOSE i \in DOMAIN ls : ls[i] = x /\ \A j \in 1..(i - 1) : ls[j] # x

\* C6: the list _extract_article_links returns holds each resolved URL exactly
\* once, at the place of its first appearance on the page.
C6_LinksDeduplicated ==
    lpc = "done" =>
        /\ \A i, j \in DOMAIN unique_links : i # j => unique_links[i] # unique_links[j]
        /\ Range(unique_links) = Range(links)
        /\ \A i, j \in DOMAIN unique_links :
               i < j => FirstIndex(links, unique_links[i]) < FirstIndex(links, unique_links[j])

C6_Witness ==
    /\ lpc = "done"
    /\ base_url.path = <<>>
    /\ Len(soup) = 3
    /\ soup[1] = <<"/", "a">>
    /\ soup[2] = <<"a", "/">>
    /\ soup[3] = <<"a">>
    /\ Len(links) = 3
    /\ Len(unique_links) = 2

\* what the claim C7 takes to be rejected: the empty href, a pure fragment, a
\* javascript: URL
IsEmptyFragmentOrScriptUrl(href) ==
    href = <<>> \/ href[1] = "#" \/ href[1] = "javascript:"

\* C7: _extract_article_links rejects an href exactly when it is empty, starts
\* with '#' or is a javascript: URL; every other href yields an entry of
\* `links` (before deduplication).
C7_RejectsExactly ==
    lpc = "done" =>
        Len(links) = Cardinality({i \in DOMAIN soup : ~IsEmptyFragmentOrScriptUrl(soup[i])})

\* C8: an accepted root-relative href is output as scheme+host of base_url
\* followed by the href; an accepted fully relative href as base_url without
\* its trailing slashes, one '/', then the href.
C8_RelativeResolved ==
    lpc = "done" =>
        \A i \in DOMAIN soup :
            ~IsSkipped(soup[i]) =>
                /\ IsRootRelative(soup[i]) =>
                       SchemeHost(base_url) \o soup[i] \in Range(unique_links)
                /\ IsFullyRelative(soup[i]) =>
                       BaseStr([base_url EXCEPT !.slashes = 0]) \o <<"/">> \o soup[i]
                           \in Range(unique_links)

C8_Witness ==
    /\ lpc = "done"
    /\ base_url.path = <<"n">>
    /\ base_url.slashes = 1
    /\ soup = << <<"a">>, <<"/", "a">> >>
    /\ unique_links = << <<"https:", "/", "/", "h", "/", "n", "/", "a">>,
                         <<"https:", "/", "/", "h", "/", "a">> >>

\* C9: an accepted href that carries its own scheme, whatever the scheme, is
\* output unchanged, and every output entry is an absolute URL.
C9_AbsolutePassThrough ==
    lpc = "done" =>
        /\ \A i \in DOMAIN soup :
               ~IsSkipped(soup[i]) /\ HasScheme(soup[i]) => soup[i] \in Range(unique_links)
        /\ \A k \in DOMAIN unique_links : HasScheme(unique_links[k])

----------------------------------------------------------------------------
(* Properties of ArticleSummarizer *)

NumWords(s) == Cardinality({i \in 1..Len(s) : IsWordStart(s, i)})

NonWhitespace(c) == ~IsWhitespace(c)

\* t is what the word limit leaves of s: s itself when s has at most
\* max_input_length words; otherwise the first max_input_length words of s,
\* separated by single spaces
IsWordLimited(s, t) ==
    IF NumWords(s) <= max_input_length
    THEN t = s
    ELSE /\ NumWords(t) = max_input_length
         /\ \A i \in 1..Len(t) :
               IsWhitespace(t[i]) =>
                   /\ t[i] = " "
                   /\ i > 1 /\ i < Len(t)
                   /\ ~IsWhitespace(t[i + 1])
         /\ LET letters == SelectSeq(t, NonWhitespace)
            IN letters = SubSeq(SelectSeq(s, NonWhitespace), 1, Len(letters))

GenerationFailed(call) == call.gen.stage \notin {"none", "uncalled"}

IsPrimed == s_model = "obj" /\ s_tokenizer = "obj"

IsDegraded == s_model = "None" /\ s_tokenizer = "None" /\ s_pipeline = "obj"

\* C12: summarize called with the empty text returns the empty string and
\* calls neither the tokenizer, the model nor the pipeline, whether the
\* instance is Primed or Degraded.
C12_EmptyTextNoInvocation ==
    (sumCalls > 0 /\ lastSum.text = <<>>) =>
        /\ ~lastSum.raised
        /\ lastSum.ret = <<>>
        /\ lastSum.path = "none"
        /\ lastSum.calls = NothingInvoked

C12_Witness ==
    /\ sumCalls = 2
    /\ lastSum.text = <<>>
    /\ IsDegraded
    /\ invoked.pipeline = 1

\* C13: summarize never raises; when a generation call raises on a non-empty
\* text, on the model path or the pipeline path, the result is the first 500
\* characters of the text handed to the generator (the input after the
\* 1024-word limit) followed by "...".
C13_FallbackOnFailure ==
    /\ ~lastSum.raised
    /\ (sumCalls > 0 /\ lastSum.text # <<>>) =>
           /\ IsWordLimited(lastSum.text, lastSum.passed)
           /\ GenerationFailed(lastSum) =>
                  lastSum.ret =
                      SubSeq(lastSum.passed, 1, Min(500, Len(lastSum.passed)))
                          \o <<".", ".", ".">>

C13_Witness ==
    /\ sumCalls > 0
    /\ IsPrimed
    /\ lastSum.gen.stage = "decode"
    /\ NumWords(lastSum.text) > 1024
    /\ Len(lastSum.ret) = 503
    /\ lastSum.ret # SubSeq(lastSum.text, 1, 500) \o <<".", ".", ".">>

\* C14: the mode is decided once, at construction: a successful load gives a
\* Primed instance whose calls use the model path, a failed load gives a
\* constructed Degraded instance whose calls use the pipeline, and no call
\* changes the mode or loads again.
C14_ModeDecidedAtConstruction ==
    /\ Len(loads) <= 1
    /\ spc # "new" =>
           /\ spc = "ready"
           /\ loads[1] = "ok" => IsPrimed
           /\ loads[1] # "ok" => IsDegraded
    /\ (sumCalls > 0 /\ lastSum.text # <<>>) =>
           lastSum.path = IF loads[1] = "ok" THEN "pegasus" ELSE "pipeline"

----------------------------------------------------------------------------
(* Properties of HumorGenerator *)

\* the add_humor calls of the logged operation
HumorCalls == {lastOp.calls[k].call : k \in DOMAIN lastOp.calls}

NoCredential == api_key = <<>> \/ api_key = << <<>> >>

RequestFailed(call) ==
    call.out.kind \in {"network_error", "api_error", "empty_choices", "no_content"}

\* sub occurs in s
Embeds(s, sub) ==
    \E i \in 0..(Len(s) - Len(sub)) : SubSeq(s, i + 1, i + Len(sub)) = sub

\* C15: with no API credential configured, add_humor(title, summary) returns
\* exactly title + "\n\n" + summary and issues no request.
C15_NoCredentialPassThrough ==
    NoCredential =>
        \A c \in HumorCalls :
            /\ ~c.raised
            /\ c.requests = <<>>
            /\ c.ret = c.title \o <<"\n", "\n">> \o c.summary

C15_Witness ==
    /\ lastOp.op = "add_humor"
    /\ api_key = << <<>> >>
    /\ \E c \in HumorCalls : c.ret = <<"U", " ", "V", "\n", "\n">>

\* C16: with a credential configured, a request that fails (network error,
\* API error, empty choices list, missing content) does not make add_humor
\* raise; it returns exactly title + "\n\n" + summary.
C16_RequestFailurePassThrough ==
    ~NoCredential =>
        \A c \in HumorCalls :
            RequestFailed(c) =>
                /\ ~c.raised
                /\ c.ret = c.title \o <<"\n", "\n">> \o c.summary

C16_Witness ==
    /\ lastOp.op = "add_humor"
    /\ ~NoCredential
    /\ \E c \in HumorCalls :
          /\ c.out.kind = "no_content"
          /\ Len(c.requests) = 1
          /\ c.ret = <<"T", "\n", "\n", "S">>

\* C17: with a credential configured and a successful request, add_humor
\* issues exactly one request, carrying the configured model, temperature and
\* max_tokens and two messages (the system persona, then the user instruction
\* that embeds title and summary), and returns the content of the first
\* choice as the service returned it.
C17_ReturnsServiceContent ==
    ~NoCredential =>
        \A c \in HumorCalls :
            c.out.kind = "ok" =>
                /\ ~c.raised
                /\ Len(c.requests) = 1
                /\ c.requests[1].model = h_cfg.model
                /\ c.requests[1].temperature = h_cfg.temperature
                /\ c.requests[1].max_tokens = h_cfg.max_tokens
                /\ Len(c.requests[1].messages) = 2
                /\ c.requests[1].messages[1].role = "system"
                /\ c.requests[1].messages[2].role = "user"
                /\ Embeds(c.requests[1].messages[2].content, <<"Title: ">> \o c.title)
                /\ Embeds(c.requests[1].messages[2].content, <<"Summary: ">> \o c.summary)
                /\ c.ret = c.out.content

\* the add_humor call that the logged operation made for record i
CallFor(i) ==
    lastOp.calls[CHOOSE k \in DOMAIN lastOp.calls : lastOp.calls[k].index = i].call

----------------------------------------------------------------------------
(* Properties of main() *)

StagesInvoked == {stageLog[k].stage : k \in DOMAIN stageLog}

\* collect_news returned, and returned no record
IngestedNothing ==
    /\ \E k \in DOMAIN stageLog :
          stageLog[k].stage = "collect_news" /\ ~stageLog[k].raised
    /\ m_df = <<>>

\* C19: when ingestion yields zero records, main returns 1 without raising
\* and invokes none of summarize_articles, add_humor and format_and_save.
C19_NoRecordsAborts ==
    IngestedNothing =>
        /\ mpc = "returned"
        /\ m_status = <<1>>
        /\ ~m_raised
        /\ StagesInvoked \cap {"summarize_articles", "add_humor", "format_and_save"} = {}

C19_Witness ==
    /\ IngestedNothing
    /\ mpc = "returned"
    /\ Len(stageLog) = 2

\* C20: when a stage called by main raises, main catches the exception: it
\* does not raise, returns a non-zero status, and invokes no stage after the
\* failing one.
C20_StageFailureCaught ==
    /\ ~m_raised
    /\ \A k \in DOMAIN stageLog :
          stageLog[k].raised =>
              /\ k = Len(stageLog)
              /\ mpc = "returned"
              /\ m_status # <<>>
              /\ m_status[1] # 0

C20_Witness ==
    /\ Len(stageLog) = 4
    /\ stageLog[4].stage = "add_humor"
    /\ stageLog[4].raised
    /\ m_status = <<1>>
    /\ \A i \in DOMAIN m_df : m_df[i].humorous_content = <<>>

StageNames == [k \in DOMAIN stageLog |-> stageLog[k].stage]

\* every stage ran once, in order, on what the stage before it returned, and
\* format_and_save returned a file path
FullRun ==
    /\ StageNames = <<"load_config", "collect_news", "summarize_articles", "add_humor",
                      "format_and_save">>
    /\ \A k \in DOMAIN stageLog : ~stageLog[k].raised
    /\ stageLog[3].input = stageLog[2].output
    /\ stageLog[4].input = stageLog[3].output
    /\ stageLog[5].input = stageLog[4].output
    /\ stageLog[5].output # <<>>

\* C21: main returns 0 only after collect_news, summarize_articles, add_humor
\* and format_and_save have each run exactly once, in that order, each on the
\* collection the previous stage returned, and format_and_save returned a
\* file path; every other run returns 1.
C21_ZeroOnlyAfterFullRun ==
    /\ m_status = <<0>> => FullRun
    /\ (mpc = "returned" /\ ~FullRun) => m_status = <<1>>

C21_Witness ==
    /\ m_status = <<0>>
    /\ Len(stageLog) = 5
    /\ Len(stageLog[5].input) = 2
    /\ stageLog[5].input # stageLog[4].input

\* the records main handed to format_and_save
HandedToFormatter ==
    UNION {Range(stageLog[k].input) : k \in {j \in DOMAIN stageLog :
                                                stageLog[j].stage = "format_and_save"}}

\* C22: every record main hands to the formatter carries a non-empty title,
\* text, url, source, summary and humorous_content, and a date, whatever the
\* summarization model and the generative service returned.
C22_FormatterRecordsComplete ==
    \A r \in HandedToFormatter :
        /\ r.date # <<>>
        /\ \A f \in {"title", "text", "url", "source", "summary", "humorous_content"} :
              r[f] # <<>> /\ r[f][1] # <<>>

\* the positions in the stage log of the completed runs of a stage
Completed(stage) ==
    {k \in DOMAIN stageLog : stageLog[k].stage = stage /\ ~stageLog[k].raised}

\* the stage entry called its function exactly once for every record it got
OncePerRecord(entry) ==
    /\ Len(entry.calls) = Len(entry.input)
    /\ \A i \in DOMAIN entry.input :
          Cardinality({j \in DOMAIN entry.calls : entry.calls[j].index = i}) = 1

\* C23: in one run of main, summarize is invoked exactly once per ingested
\* record and add_humor exactly once per summarized record; a summary, once
\* set, is not regenerated or overwritten, and neither is a humorous_content.
C23_OncePerRecord ==
    /\ \A stage \in {"summarize_articles", "add_humor"} :
          /\ Cardinality({k \in DOMAIN stageLog : stageLog[k].stage = stage}) <= 1
          /\ \A k \in Completed(stage) : OncePerRecord(stageLog[k])
    /\ \A k \in Completed("summarize_articles") :
          \A j \in (k + 1)..Len(stageLog) :
             /\ Len(stageLog[j].input) = Len(stageLog[k].output)
             /\ \A i \in DOMAIN stageLog[k].output :
                   stageLog[j].input[i].summary = stageLog[k].output[i].summary
    /\ \A k \in Completed("add_humor") :
          /\ \A i \in DOMAIN stageLog[k].output :
                stageLog[k].output[i].summary = stageLog[k].input[i].summary
          /\ \A j \in (k + 1)..Len(stageLog) :
                \A i \in DOMAIN stageLog[k].output :
                   stageLog[j].input[i].humorous_content =
                       stageLog[k].output[i].humorous_content
    /\ mpc \in {"summarized", "stylized"} =>
          \A i \in DOMAIN m_df : m_df[i].summary = stageLog[3].output[i].summary

C23_Witness ==
    /\ mpc = "returned"
    /\ m_status = <<0>>
    /\ Len(m_df) = 2
    /\ Len(stageLog[3].calls) = 2
    /\ Len(stageLog[4].calls) = 2
    /\ m_df[1].summary # m_df[2].summary

\* the logged call that a stage entry made for record i
StageCall(entry, i) ==
    entry.calls[CHOOSE j \in DOMAIN entry.calls : entry.calls[j].index = i]

\* output is input with nothing changed but the field named added
OnlyAdds(entry, added) ==
    /\ Len(entry.output) = Len(entry.input)
    /\ \A i \in DOMAIN entry.input :
          \A f \in DOMAIN entry.input[i] \ {added} :
             entry.output[i][f] = entry.input[i][f]

\* C29: summarize_articles and add_humor only add a field: each returns as
\* many records as it received, in the same order, with title, text, url,
\* source and date unchanged (add_humor leaves summary unchanged too); the
\* i-th summary is the result of summarize on the i-th text, the i-th
\* humorous_content the result of add_humor on the i-th title and summary.
C29_StagesOnlyAddAField ==
    /\ \A k \in Completed("summarize_articles") :
          /\ OnlyAdds(stageLog[k], "summary")
          /\ \A i \in DOMAIN stageLog[k].input :
                /\ StageCall(stageLog[k], i).args = <<stageLog[k].input[i].text[1]>>
                /\ stageLog[k].output[i].summary = <<StageCall(stageLog[k], i).ret>>
    /\ \A k \in Completed("add_humor") :
          /\ OnlyAdds(stageLog[k], "humorous_content")
          /\ \A i \in DOMAIN stageLog[k].input :
                /\ StageCall(stageLog[k], i).args =
                      <<stageLog[k].input[i].title[1], stageLog[k].input[i].summary[1]>>
                /\ stageLog[k].output[i].humorous_content =
                      <<StageCall(stageLog[k], i).ret>>

C29_Witness ==
    /\ Completed("add_humor") # {}
    /\ Len(stageLog[4].output) = 2
    /\ stageLog[3].output[1].summary # stageLog[3].output[2].summary
    /\ stageLog[4].output[1].humorous_content # stageLog[4].output[2].humorous_content
    /\ stageLog[4].output[1].title # stageLog[4].output[2].title

\* C26: for a text of more than 1024 whitespace-separated words, summarize
\* hands the model or the pipeline exactly the first 1024 words joined by
\* single spaces; a text of at most 1024 words is handed over unchanged; the
\* failure fallback takes its 500 characters from the text handed over.
C26_WordLimit ==
    (sumCalls > 0 /\ lastSum.text # <<>>) =>
        LET words == SplitWhitespace(lastSum.text)
        IN /\ Len(words) <= 1024 => lastSum.passed = lastSum.text
           /\ Len(words) > 1024 =>
                 /\ SplitWhitespace(lastSum.passed) = SubSeq(words, 1, 1024)
                 /\ IsWordLimited(lastSum.text, lastSum.passed)
           /\ GenerationFailed(lastSum) =>
                 SubSeq(lastSum.ret, 1, Len(lastSum.ret) - 3)
                     = SubSeq(lastSum.passed, 1, Min(500, Len(lastSum.passed)))

C26_Witness ==
    /\ sumCalls > 0
    /\ IsDegraded
    /\ lastSum.gen.stage = "none"
    /\ NumWords(lastSum.text) = 1025
    /\ Len(lastSum.passed) = 2047
    /\ lastSum.passed[2] = " "
    /\ lastSum.text[3] = "\n"

\* C27: within one collect_news run nothing is retried: every source is
\* fetched exactly once, whether the fetch succeeds, times out or fails, and
\* every capped link gets exactly one extraction attempt, whether it yields a
\* record, nothing or an exception.
C27_NothingRetried ==
    /\ Len(srcLog) <= Len(Sources)
    /\ pc \in {"sources", "links"} => Len(srcLog) = srcIdx - 1
    /\ (pc = "done" /\ ~raised) => Len(srcLog) = Len(Sources)
    /\ Len(attempts) <= max_articles_per_source
    /\ \A i, j \in DOMAIN attempts : i # j => attempts[i].url # attempts[j].url
    /\ pc = "links" => UrlsOf(attempts) = SubSeq(article_links, 1, linkIdx - 1)
    /\ (pc \in {"sources", "done"} /\ srcLog # <<>>) =>
          UrlsOf(attempts) = article_links

C27_Witness ==
    /\ pc = "done"
    /\ srcLog[1].fetch = "Timeout"
    /\ srcLog[2].fetch = "ok"
    /\ Len(attempts) = 2
    /\ attempts[1].status = "raised"
    /\ attempts[2].status = "none"
    /\ Len(discovered) > 2

\* a is b with some elements left out, the others in b's order
RECURSIVE IsSubsequence(_, _)
IsSubsequence(a, b) ==
    IF a = <<>> THEN TRUE
    ELSE IF b = <<>> THEN FALSE
    ELSE IF a[1] = b[1] THEN IsSubsequence(Tail(a), Tail(b))
    ELSE IsSubsequence(a, Tail(b))

SourceRank(name) == CHOOSE k \in DOMAIN Sources : Sources[k].name = name

\* C28: the records collect_news returns are ordered by source in
\* configuration order and, within a source, by the order in which the links
\* were discovered; the recency filter removes records without reordering.
C28_OrderPreserved ==
    /\ article_links = SubSeq(discovered, 1, Len(article_links))
    /\ IsSubsequence(UrlsOf(articles), article_links)
    /\ pc = "links" =>
          \A i \in DOMAIN articles : articles[i].source = Sources[srcIdx].name
    /\ articles_data = Flatten([k \in DOMAIN srcLog |-> srcLog[k].records])
    /\ \A k \in DOMAIN srcLog : \A i \in DOMAIN srcLog[k].records :
          srcLog[k].records[i].source = Sources[k].name
    /\ SourceReturned => srcLog[Len(srcLog)].records = articles
    /\ (pc = "done" /\ ~raised) =>
          /\ IsSubsequence(result, articles_data)
          /\ \A i, j \in DOMAIN result :
                i < j => SourceRank(result[i].source) <= SourceRank(result[j].source)

C28_Witness ==
    /\ pc = "done"
    /\ ~raised
    /\ Len(articles_data) = 3
    /\ result = <<articles_data[1], articles_data[3]>>
    /\ result[1].source # result[2].source
    /\ articles_data[1].source = articles_data[2].source

----------------------------------------------------------------------------
(* Properties of Config and NewsletterFormatter *)

Constructed == cpc \in {"configured", "handed"}

\* what the environment held before validation
Loaded == LoadConfigDict(environ).config

StatedDefault ==
    [max_articles_per_source |-> 5, days_to_look_back |-> 3,
     summary_min_length |-> 50, summary_max_length |-> 150]

InUnitInterval(t) == ~t.nan /\ 0 <= t.num /\ t.num <= Pow10(t.scale)

\* C24: after Config construction each of the four numeric settings is
\* positive, a value <= 0 having been replaced by its default 5, 3, 50, 150;
\* humor_temperature lies in [0.0, 1.0], replaced by 0.7 otherwise;
\* output_format is 'markdown' or 'html', replaced by 'markdown' otherwise;
\* values in range are kept unchanged.
C24_ValidatedInRange ==
    Constructed =>
        /\ \A key \in DOMAIN StatedDefault :
              /\ config[key] > 0
              /\ Loaded[key] <= 0 => config[key] = StatedDefault[key]
              /\ Loaded[key] > 0 => config[key] = Loaded[key]
        /\ InUnitInterval(config.humor_temperature)
        /\ ~InUnitInterval(Loaded.humor_temperature) =>
              config.humor_temperature = [nan |-> FALSE, num |-> 7, scale |-> 1]
        /\ InUnitInterval(Loaded.humor_temperature) =>
              config.humor_temperature = Loaded.humor_temperature
        /\ config.output_format \in {Markdown, Html}
        /\ Loaded.output_format \notin {Markdown, Html} =>
              config.output_format = Markdown
        /\ Loaded.output_format \in {Markdown, Html} =>
              config.output_format = Loaded.output_format

C24_Witness ==
    /\ cpc = "configured"
    /\ environ.MAX_ARTICLES_PER_SOURCE = << <<"0">> >>
    /\ environ.DAYS_TO_LOOK_BACK = << <<"2">> >>
    /\ environ.SUMMARY_MIN_LENGTH = << <<"-", "1">> >>
    /\ environ.SUMMARY_MAX_LENGTH = <<>>
    /\ environ.HUMOR_TEMPERATURE = << <<"1", ".", "0", "1">> >>
    /\ environ.OUTPUT_FORMAT = << <<"p", "d", "f">> >>
    /\ config.max_articles_per_source = 5
    /\ config.days_to_look_back = 2

\* C25: the configuration handed to the summarizer satisfies
\* summary_min_length <= summary_max_length, for every pair of environment
\* values Config accepts.
C25_MinNotAboveMax ==
    handed # <<>> => handed[1].min_length <= handed[1].max_length

\* C30: the extension save_newsletter chooses matches what format_newsletter
\* renders: '.md' whenever markdown is rendered, the default for an
\* unsupported format included, and '.html' only when HTML is rendered.
C30_ExtensionMatchesRendering ==
    fpc = "saved" =>
        /\ rendered = <<"markdown">> => extension = <<".md">>
        /\ extension = <<".html">> => rendered = <<"html">>

====
